---- MODULE Spec2Model ----
(***************************************************************************)
(* A model of pods.py, the Kubernetes LLM diagnostics test harness.        *)
(*                                                                         *)
(* Text is modelled as a sequence of lexemes.  A lexeme is one of the      *)
(* punctuation marks "---", " ", "\n", "{", "}", "pod/", ":" or a word.    *)
(* A word is upper (only characters of [A-Z_]), lower (only characters of  *)
(* [a-z_]) or other.  Concatenation, str.replace, str.strip, str.split,    *)
(* str.startswith and the regular expression of reason_llm act on these    *)
(* sequences the way the Python operations act on the characters.          *)
(*                                                                         *)
(* SpecUnit calls one function of the program on one input.  Spec runs     *)
(* main over SCENARIOS against a nondeterministic cluster and model        *)
(* endpoint.                                                               *)
(***************************************************************************)
EXTENDS Integers, Sequences, FiniteSets, TLC

VARIABLES
    call,     \* SpecUnit: the function called and its arguments
    ret,      \* SpecUnit: what the call came to
    sent,     \* the prompts posted to the model endpoint, in order
    issued,   \* the commands handed to the shell
    pc,               \* main: the state of the runner
    idx,              \* main: the position in SCENARIOS of the scenario at hand
    node_for_taint,   \* main: the worker node, or None
    polls,            \* get_pod_name: the listings polled so far
    pod_name,         \* main: what get_pod_name returned
    classification,   \* main: the stripped classification
    full_context,     \* main: the package perceive_context returned
    diagnosis_result, \* main: the analysis
    displayed,        \* what act_display_results was given, in order
    trace,            \* the runner states the scenario at hand has entered
    begun,            \* the scenarios whose Setup has begun
    cleaned,          \* the scenarios whose cleanup delete has run
    restored,         \* the scenarios whose post-run command has run
    tainted           \* the nodes carrying a taint the run applied

unitVars == <<call, ret>>

logVars == <<sent, issued>>

mainVars ==
    <<pc, idx, node_for_taint, polls, pod_name, classification, full_context,
      diagnosis_result, displayed, trace, begun, cleaned, restored, tainted>>

vars == <<unitVars, logVars, mainVars>>

(***************************************************************************)
(* Text                                                                    *)
(***************************************************************************)
NL == "\n"
SP == " "

Whitespace == {SP, NL}

\* s[i..j] as a sequence, empty when j < i
Slice(s, i, j) == IF j < i THEN <<>> ELSE SubSeq(s, i, j)

\* sub occurs in s at position i
OccursAt(s, sub, i) ==
    /\ i >= 1
    /\ i + Len(sub) - 1 <= Len(s)
    /\ \A k \in 1..Len(sub) : s[i + k - 1] = sub[k]

\* the Python expression (sub in s)
Contains(s, sub) == \E i \in 1..(Len(s) + 1) : OccursAt(s, sub, i)

\* str.startswith
StartsWith(s, prefix) == OccursAt(s, prefix, 1)

\* the positions from i on at which sub occurs in s
OccurrencesFrom(s, sub, i) == {j \in i..Len(s) : OccursAt(s, sub, j)}

\* str.replace(old, new) for a non-empty old: every occurrence, leftmost
\* first, occurrences not overlapping
RECURSIVE ReplaceFrom(_, _, _, _)
ReplaceFrom(s, old, new, i) ==
    LET occ == OccurrencesFrom(s, old, i)
    IN  IF occ = {} THEN Slice(s, i, Len(s))
        ELSE LET j == CHOOSE x \in occ : \A y \in occ : x <= y
             IN  Slice(s, i, j - 1) \o new \o ReplaceFrom(s, old, new, j + Len(old))

Replace(s, old, new) == ReplaceFrom(s, old, new, 1)

\* str.strip(): the text without its leading and trailing whitespace
Strip(s) ==
    LET keep == {i \in 1..Len(s) : s[i] \notin Whitespace}
    IN  IF keep = {} THEN <<>>
        ELSE LET lo == CHOOSE i \in keep : \A j \in keep : i <= j
                 hi == CHOOSE i \in keep : \A j \in keep : j <= i
             IN  SubSeq(s, lo, hi)

\* str.split(sep) for a one-lexeme separator: the pieces between separators
RECURSIVE SplitFrom(_, _, _)
SplitFrom(s, sep, i) ==
    LET seps == {j \in i..Len(s) : s[j] = sep}
    IN  IF seps = {} THEN <<Slice(s, i, Len(s))>>
        ELSE LET j == CHOOSE x \in seps : \A y \in seps : x <= y
             IN  <<Slice(s, i, j - 1)>> \o SplitFrom(s, sep, j + 1)

Split(s, sep) == SplitFrom(s, sep, 1)

(***************************************************************************)
(* run_command                                                             *)
(***************************************************************************)
\* What a function call comes to: a returned value or a raised exception.
Returned(v) == [raised |-> FALSE, value |-> v]
Raised(e)   == [raised |-> TRUE, value |-> <<e>>]

\* A finished subprocess: exit code, captured stdout and stderr.
Proc(rc, out, err) == [rc |-> rc, out |-> out, err |-> err]

\* subprocess.run(..., check=check): CalledProcessError is raised only when
\* check is set and the exit code is not zero.
SubprocessRaises(check, p) == check /\ p.rc # 0

run_command(p, check) ==
    IF SubprocessRaises(check, p)
    THEN \* the except branch: check is TRUE here, so the error is re-raised
         IF check THEN Raised("CalledProcessError") ELSE Returned(Strip(p.err))
    ELSE Returned(Strip(p.out))

(***************************************************************************)
(* call_llm                                                                *)
(***************************************************************************)
\* The outcomes of the HTTP exchange.
HttpFailures ==
    {"connection_error", "timeout", "http_status_error", "body_not_json",
     "json_without_choices", "json_empty_choices", "json_message_null",
     "json_without_message", "json_without_content"}

HttpOutcomes == HttpFailures \cup {"ok"}

ApiRequestError(e) == <<"API", SP, "Request", SP, "Error", ":", SP, e>>

ContentKeyError ==
    <<"Error", ":", SP, "'content'", SP, "key", SP, "not", SP, "found", SP,
      "in", SP, "message.">>

\* The results call_llm can have for an HTTP outcome; content is the text of
\* choices[0].message.content when the exchange succeeds.  response.json()
\* on a body that is not JSON raises requests' JSONDecodeError (a
\* RequestException) or a plain ValueError, depending on the installed
\* requests release; only the first is caught.
call_llm(http, content) ==
    CASE http = "connection_error"     -> {Returned(ApiRequestError("ConnectionError"))}
      [] http = "timeout"              -> {Returned(ApiRequestError("Timeout"))}
      [] http = "http_status_error"    -> {Returned(ApiRequestError("HTTPError"))}
      [] http = "body_not_json"        -> {Returned(ApiRequestError("JSONDecodeError")),
                                           Raised("ValueError")}
      [] http = "json_without_choices" -> {Raised("KeyError")}
      [] http = "json_empty_choices"   -> {Raised("IndexError")}
      [] http = "json_message_null"    -> {Raised("AttributeError")}
      [] http = "json_without_message" -> {Returned(ContentKeyError)}
      [] http = "json_without_content" -> {Returned(ContentKeyError)}
      [] http = "ok"                   -> {Returned(content)}

\* The texts call_llm returns to report a failure.
IsErrorString(s) ==
    \/ s = ContentKeyError
    \/ \E e \in {"ConnectionError", "Timeout", "HTTPError", "JSONDecodeError"} :
          s = ApiRequestError(e)

(***************************************************************************)
(* perceive_context                                                        *)
(***************************************************************************)
Classifications ==
    {<<"SchedulingFailure">>, <<"ImagePullFailure">>, <<"ConfigurationFailure">>,
     <<"InitializationFailure">>, <<"RuntimeCrash">>, <<"HealthCheckFailure">>}

\* A dict in insertion order: a sequence of entries with distinct keys.
Entry(k, v) == [key |-> k, value |-> v]

KeysOf(ctx) == {ctx[i].key : i \in 1..Len(ctx)}

KeySeq(ctx) == [i \in 1..Len(ctx) |-> ctx[i].key]

HasKey(ctx, k) == k \in KeysOf(ctx)

ValueOf(ctx, k) == ctx[CHOOSE i \in 1..Len(ctx) : ctx[i].key = k].value

\* context[k] = v
SetItem(ctx, k, v) ==
    IF HasKey(ctx, k)
    THEN [i \in 1..Len(ctx) |-> IF ctx[i].key = k THEN Entry(k, v) ELSE ctx[i]]
    ELSE Append(ctx, Entry(k, v))

EndsWith(s, suffix) ==
    Len(suffix) <= Len(s) /\ OccursAt(s, suffix, Len(s) - Len(suffix) + 1)

InitContainersHeader == <<"Init", SP, "Containers", ":">>

Least(S) == CHOOSE i \in S : \A j \in S : i <= j

\* Lines 78-87: the stripped text, colons removed, of the first line after
\* the line 'Init Containers:' whose stripped text ends with a colon; empty
\* when there is no such header (ValueError) or no such line.
InitContainerName(pod_description) ==
    LET pod_desc_lines == Split(pod_description, NL)
        headers == {i \in 1..Len(pod_desc_lines) :
                       pod_desc_lines[i] = InitContainersHeader}
    IN  IF headers = {} THEN <<>>
        ELSE LET init_section_index == Least(headers)
                 named == {i \in (init_section_index + 1)..Len(pod_desc_lines) :
                              EndsWith(Strip(pod_desc_lines[i]), <<":">>)}
             IN  IF named = {} THEN <<>>
                 ELSE Replace(Strip(pod_desc_lines[Least(named)]), <<":">>, <<>>)

\* Line 94: the label selector derived from the pod name.
AppLabel(pod) ==
    Replace(Replace(pod, <<"-pod">>, <<>>), <<"bad-readiness", "-">>,
            <<"bad-readiness">>)

\* The commands perceive_context issues.
DescribePodCmd(pod) == <<"kubectl describe pod">> \o pod
DescribeNodesCmd == <<"kubectl describe nodes">>
GetConfigmapsCmd == <<"kubectl get configmaps">>
InitLogsCmd(pod, c) ==
    <<"kubectl logs">> \o pod \o <<"-c">> \o c \o <<"--previous">>
LogsCmd(pod) == <<"kubectl logs">> \o pod \o <<"--previous">>
GetEndpointsCmd(label) == <<"kubectl get endpoints -l app=">> \o label

\* ContextCheck with the commands left in the default, strict mode.
MutContextCheck == TRUE

\* The mode perceive_context runs its commands in (check=False).
ContextCheck == FALSE

\* ExtraLookup with the container logs fetched for ImagePullFailure too.
MutExtraLookupPull(pod, cls, pod_description) ==
    CASE cls = <<"SchedulingFailure">> ->
            <<"node_descriptions", DescribeNodesCmd>>
      [] cls = <<"ImagePullFailure">> ->
            <<"container_logs", LogsCmd(pod)>>
      [] cls = <<"ConfigurationFailure">> ->
            <<"configmaps_in_namespace", GetConfigmapsCmd>>
      [] cls = <<"InitializationFailure">> ->
            LET init_container_name == InitContainerName(pod_description)
            IN  IF init_container_name # <<>>
                THEN <<"init_container_logs", InitLogsCmd(pod, init_container_name)>>
                ELSE <<>>
      [] cls = <<"RuntimeCrash">> ->
            <<"container_logs", LogsCmd(pod)>>
      [] cls = <<"HealthCheckFailure">> ->
            <<"service_endpoints", GetEndpointsCmd(AppLabel(pod))>>
      [] OTHER -> <<>>

\* ExtraLookup with the last branch an else.
MutExtraLookupElse(pod, cls, pod_description) ==
    CASE cls = <<"SchedulingFailure">> ->
            <<"node_descriptions", DescribeNodesCmd>>
      [] cls = <<"ImagePullFailure">> -> <<>>
      [] cls = <<"ConfigurationFailure">> ->
            <<"configmaps_in_namespace", GetConfigmapsCmd>>
      [] cls = <<"InitializationFailure">> ->
            LET init_container_name == InitContainerName(pod_description)
            IN  IF init_container_name # <<>>
                THEN <<"init_container_logs", InitLogsCmd(pod, init_container_name)>>
                ELSE <<>>
      [] cls = <<"RuntimeCrash">> ->
            <<"container_logs", LogsCmd(pod)>>
      [] OTHER ->
            <<"service_endpoints", GetEndpointsCmd(AppLabel(pod))>>

\* The additional lookup of a classification, given the pod description
\* already collected: <<>> when there is none, else <<key, command>>.
ExtraLookup(pod, cls, pod_description) ==
    CASE cls = <<"SchedulingFailure">> ->
            <<"node_descriptions", DescribeNodesCmd>>
      [] cls = <<"ImagePullFailure">> -> <<>>
      [] cls = <<"ConfigurationFailure">> ->
            <<"configmaps_in_namespace", GetConfigmapsCmd>>
      [] cls = <<"InitializationFailure">> ->
            LET init_container_name == InitContainerName(pod_description)
            IN  IF init_container_name # <<>>
                THEN <<"init_container_logs", InitLogsCmd(pod, init_container_name)>>
                ELSE <<>>
      [] cls = <<"RuntimeCrash">> ->
            <<"container_logs", LogsCmd(pod)>>
      [] cls = <<"HealthCheckFailure">> ->
            <<"service_endpoints", GetEndpointsCmd(AppLabel(pod))>>
      [] OTHER -> <<>>

\* exec.desc is the subprocess of the describe command, exec.extra that of
\* the additional lookup.  The result is a call result whose value is the
\* context; commands are the commands issued.
PerceiveRun(pod, cls, exec) ==
    LET d == run_command(exec.desc, ContextCheck)
        cmds1 == {DescribePodCmd(pod)}
    IN  IF d.raised THEN [result |-> d, commands |-> cmds1]
        ELSE LET context == SetItem(<<>>, "pod_description", d.value)
                 look == ExtraLookup(pod, cls, d.value)
             IN  IF look = <<>>
                 THEN [result |-> Returned(context), commands |-> cmds1]
                 ELSE LET x == run_command(exec.extra, ContextCheck)
                          cmds2 == cmds1 \cup {look[2]}
                      IN  IF x.raised THEN [result |-> x, commands |-> cmds2]
                          ELSE [result |-> Returned(SetItem(context, look[1], x.value)),
                                commands |-> cmds2]

perceive_context(pod, cls, exec) ==
    PerceiveRun(pod, cls, exec).result

(***************************************************************************)
(* reason_llm                                                              *)
(***************************************************************************)
\* The words made only of characters of [A-Z_], and only of [a-z_].
UpperWords ==
    {"END", "POD", "DATA", "A", "B", "POD_DESCRIPTION", "NODE_DESCRIPTIONS",
     "CONFIGMAPS_IN_NAMESPACE", "INIT_CONTAINER_LOGS", "CONTAINER_LOGS",
     "SERVICE_ENDPOINTS"}

LowerWords ==
    {"a", "b", "kubectl_get_pod_output", "pod_description", "node_descriptions",
     "configmaps_in_namespace", "init_container_logs", "container_logs",
     "service_endpoints", "panic", "key", "not", "found", "in", "from", "server",
     "bad", "image", "cannot", "tell"}

\* The number of lexemes of s from position i on that lie in class: the
\* greedy match of [class]*.
RunLen(s, i, class) ==
    LET stops == {j \in i..Len(s) : s[j] \notin class}
    IN  IF stops = {} THEN (IF i > Len(s) THEN 0 ELSE Len(s) - i + 1)
        ELSE (CHOOSE x \in stops : \A y \in stops : x <= y) - i

\* Line 111: the position after the match of
\*   --- [A-Z_]+ ---\n\{[a-z_]+\}\n--- END [A-Z_]+ ---
\* that starts at position i, or 0 when none starts there.  Each [..]+ is
\* followed by a character outside its class, so the greedy run is the only
\* candidate.
BlockMatchEnd(s, i) ==
    LET u1 == i + 2
        n1 == RunLen(s, u1, UpperWords)
        m1 == u1 + n1
        mid == <<SP, "---", NL, "{">>
        l1 == m1 + Len(mid)
        n2 == RunLen(s, l1, LowerWords)
        m2 == l1 + n2
        foot == <<"}", NL, "---", SP, "END", SP>>
        u2 == m2 + Len(foot)
        n3 == RunLen(s, u2, UpperWords)
        m3 == u2 + n3
        last == <<SP, "---">>
    IN  IF /\ OccursAt(s, <<"---", SP>>, i)
           /\ n1 >= 1
           /\ OccursAt(s, mid, m1)
           /\ n2 >= 1
           /\ OccursAt(s, foot, m2)
           /\ n3 >= 1
           /\ OccursAt(s, last, m3)
        THEN m3 + Len(last)
        ELSE 0

\* re.sub(pattern, '', prompt): every match removed, leftmost first, matches
\* not overlapping.
RECURSIVE StripBlocksFrom(_, _)
StripBlocksFrom(s, i) ==
    LET starts == {j \in i..Len(s) : BlockMatchEnd(s, j) # 0}
    IN  IF starts = {} THEN Slice(s, i, Len(s))
        ELSE LET j == CHOOSE x \in starts : \A y \in starts : x <= y
             IN  Slice(s, i, j - 1) \o StripBlocksFrom(s, BlockMatchEnd(s, j))

\* StripBlocks that also shortens the blank lines the removed blocks leave.
MutStripBlocks(s) == Replace(StripBlocksFrom(s, 1), <<NL, NL, NL>>, <<NL, NL>>)

StripBlocks(s) == StripBlocksFrom(s, 1)

Placeholder(key) == <<"{", key, "}">>

\* Lines 107-109: the placeholders of the entries replaced in dict order.
RECURSIVE SubstituteAll(_, _)
SubstituteAll(prompt, items) ==
    IF items = <<>> THEN prompt
    ELSE SubstituteAll(Replace(prompt, Placeholder(items[1].key), items[1].value),
                       Tail(items))

Sentinel == "kubectl_get_pod_output"

\* SingleSubstitution without the early return of lines 103-105.
MutSingleSubstitution(context_package) == FALSE

\* Line 103: the test that selects the direct substitution.
SingleSubstitution(context_package) == HasKey(context_package, Sentinel)

\* The prompt reason_llm passes to call_llm.
BuildPrompt(context_package, prompt_template) ==
    IF SingleSubstitution(context_package)
    THEN Replace(prompt_template, Placeholder(Sentinel),
                 ValueOf(context_package, Sentinel))
    ELSE StripBlocks(SubstituteAll(prompt_template, context_package))

\* Lines 105 and 113: reason_llm returns what call_llm comes to on the built
\* prompt (or raises what it raises).
reason_llm(reply) == reply

\* A block of a template: header, placeholder and footer.
Block(UP, key) ==
    <<"---", SP, UP, SP, "---", NL, "{", key, "}", NL,
      "---", SP, "END", SP, UP, SP, "---">>

\* Lines 265-272.
classification_prompt ==
    <<NL, "You are an expert Kubernetes SRE. Classify the failure of the pod below into ONE of these categories:",
      NL, "SchedulingFailure, ImagePullFailure, ConfigurationFailure, InitializationFailure, RuntimeCrash, HealthCheckFailure",
      NL, "---", SP, "POD", SP, "DATA", SP, "---",
      NL, "{", Sentinel, "}",
      NL, "---", SP, "END", SP, "POD", SP, "DATA", SP, "---",
      NL, "Respond with ONLY the category name.", NL>>

\* The blocks of the diagnosis template, in order: header word and key.
DiagnosisBlocks ==
    << <<"POD_DESCRIPTION", "pod_description">>,
       <<"NODE_DESCRIPTIONS", "node_descriptions">>,
       <<"CONFIGMAPS_IN_NAMESPACE", "configmaps_in_namespace">>,
       <<"INIT_CONTAINER_LOGS", "init_container_logs">>,
       <<"CONTAINER_LOGS", "container_logs">>,
       <<"SERVICE_ENDPOINTS", "service_endpoints">> >>

RECURSIVE BlocksText(_)
BlocksText(bs) ==
    IF bs = <<>> THEN <<>>
    ELSE IF Len(bs) = 1 THEN Block(bs[1][1], bs[1][2]) \o <<NL>>
    ELSE Block(bs[1][1], bs[1][2]) \o <<NL, NL>> \o BlocksText(Tail(bs))

\* Lines 280-314.
diagnosis_prompt_template ==
    <<NL, "You are an expert Kubernetes SRE providing a detailed root cause analysis and remediation plan.",
      NL, "Analyze the following diagnostic data to determine the precise root cause of the failure.",
      NL, NL, "### DIAGNOSTIC CONTEXT PACKAGE START ###", NL>>
    \o BlocksText(DiagnosisBlocks)
    \o <<"### DIAGNOSTIC CONTEXT PACKAGE END ###", NL, NL, "Provide:",
         NL, "1.  **Root Cause:** A concise explanation of the failure.",
         NL, "2.  **Detailed Analysis:** An in-depth explanation of the evidence.",
         NL, "3.  **Remediation Plan:** Step-by-step instructions with corrected YAML or commands.",
         NL>>

(***************************************************************************)
(* Inputs of the unit specification                                        *)
(***************************************************************************)
NotCalled == [raised |-> FALSE, value |-> <<"<not called>">>, pending |-> TRUE]

Outputs ==
    {<<>>,
     <<"Pending">>,
     <<SP, "Pending", NL>>,
     <<NL>>,
     <<"Error", SP, "from", SP, "server">>,
     <<"Error", SP, "from", SP, "server", NL>>}

ExitCodes == {0, 1}

RunCommandCalls ==
    [fn : {"run_command"}, command : {<<"kubectl get pods -o name">>}, check : BOOLEAN,
     proc : {Proc(rc, out, err) : rc \in ExitCodes, out \in Outputs, err \in Outputs}]

Prompts == {<<"classify">>, <<"diagnose">>}

Contents ==
    {<<"SchedulingFailure">>, <<SP, "RuntimeCrash", NL>>, <<>>,
     <<"Root", SP, "Cause", ":", SP, "bad", SP, "image">>,
     <<"I", SP, "cannot", SP, "tell">>}

CallLlmCalls ==
    [fn : {"call_llm"}, prompt : Prompts, http : HttpOutcomes, content : Contents]

PodNames == {<<"bad-readiness", "-pod">>, <<"high-cpu-app-", "x7">>}

Unrecognized ==
    {<<>>, <<"schedulingfailure">>, <<"SchedulingFailure", ".">>,
     <<SP, "RuntimeCrash">>, ApiRequestError("Timeout")}

DescNoInit ==
    <<"Name", ":", SP, "p", NL, "Status", ":", SP, "Pending", NL, "Containers", ":",
      NL, SP, SP, "app", ":">>

DescInit ==
    <<"Name", ":", SP, "p", NL, "Init", SP, "Containers", ":", NL,
      SP, SP, "init-db", ":", NL, SP, SP, SP, SP, "State", ":", SP, "Waiting", NL,
      "Containers", ":", NL, SP, SP, "app", ":">>

DescInitNoName ==
    <<"Name", ":", SP, "p", NL, "Init", SP, "Containers", ":", NL,
      SP, SP, "State", ":", SP, "Waiting">>

DescInitColonOnly == <<"Init", SP, "Containers", ":", NL, SP, ":">>

DescInitEmptySection ==
    <<"Init", SP, "Containers", ":", NL, "Containers", ":", NL, SP, SP, "app", ":">>

DescIndentedHeader ==
    <<"Name", ":", NL, SP, "Init", SP, "Containers", ":", NL, SP, SP, "init-db", ":">>

Descriptions ==
    {DescNoInit, DescInit, DescInitNoName, DescInitColonOnly, DescInitEmptySection,
     DescIndentedHeader}

NotFoundErr == <<"Error", SP, "from", SP, "server", SP, "(NotFound)">>

DescProcs ==
    {Proc(0, d, <<>>) : d \in Descriptions} \cup {Proc(1, <<>>, NotFoundErr)}

ExtraProcs ==
    {Proc(0, <<"line1", NL, "line2", NL>>, <<>>), Proc(0, <<>>, <<>>),
     Proc(1, <<>>, NotFoundErr), Proc(1, <<"partial">>, NotFoundErr)}

PerceiveCalls ==
    [fn : {"perceive_context"}, pod_name : PodNames,
     classification : Classifications \cup Unrecognized,
     exec : [desc : DescProcs, extra : ExtraProcs]]

\* The most entries of a generated context package.
MaxCtxLen == 2

GenKeys == {"a", "b", Sentinel}

GenValues ==
    {<<>>, <<"Pending">>, <<"{", "b", "}">>, <<"{", "panic", "}">>,
     <<"x", NL, "y">>}

RECURSIVE GenContexts(_)
GenContexts(n) ==
    IF n = 0 THEN {<<>>}
    ELSE LET shorter == GenContexts(n - 1)
         IN  shorter \cup
             {Append(c, Entry(k, v)) :
                 c \in {d \in shorter : Len(d) = n - 1}, k \in GenKeys, v \in GenValues}

DistinctKeys(ctx) == \A i, j \in 1..Len(ctx) : ctx[i].key = ctx[j].key => i = j

\* The packages perceive_context returns on the inputs above.
PerceivedContexts ==
    {perceive_context(c.pod_name, c.classification, c.exec).value :
        c \in {d \in PerceiveCalls :
                  ~perceive_context(d.pod_name, d.classification, d.exec).raised}}

Contexts == {c \in GenContexts(MaxCtxLen) : DistinctKeys(c)} \cup PerceivedContexts

TemplateAB ==
    <<"Intro", NL>> \o Block("A", "a") \o <<NL>> \o Block("B", "b") \o <<NL, "Outro">>

TemplateBare == <<"{", "a", "}", SP, "{", "b", "}">>

TemplateSentinelBlock ==
    <<"{", Sentinel, "}", NL>> \o Block("B", "b") \o <<NL>> \o Block("A", "a")

TemplateNested ==
    <<"---", SP, "A", SP, "---", NL, "{", "a">> \o Block("B", "b")
    \o <<"}", NL, "---", SP, "END", SP, "A", SP, "---">>

Templates ==
    {TemplateAB, TemplateBare, TemplateSentinelBlock, TemplateNested,
     classification_prompt, diagnosis_prompt_template}

ReasonCalls ==
    [fn : {"reason_llm"}, context_package : Contexts, prompt_template : Templates,
     http : {"ok", "timeout", "json_without_choices"}, content : {<<"RuntimeCrash">>}]

\* The value None.
None == <<"None">>

\* A local of main that the scenario at hand has not assigned yet.
Unset == <<"unset">>

\* The runner's variables while main is not running.
MainNotRunning ==
    /\ pc = "not_running"
    /\ idx = 0
    /\ node_for_taint = None
    /\ polls = <<>>
    /\ pod_name = None
    /\ classification = None
    /\ full_context = <<>>
    /\ diagnosis_result = None
    /\ displayed = <<>>
    /\ trace = <<>>
    /\ begun = {}
    /\ cleaned = {}
    /\ restored = {}
    /\ tainted = {}

InitUnit ==
    /\ call \in RunCommandCalls \cup CallLlmCalls \cup PerceiveCalls \cup ReasonCalls
    /\ ret = NotCalled
    /\ sent = <<>>
    /\ issued = {}
    /\ MainNotRunning

CallRunCommand ==
    /\ call.fn = "run_command"
    /\ ret = NotCalled
    /\ ret' = run_command(call.proc, call.check)
    /\ issued' = {call.command}
    /\ UNCHANGED <<call, sent, mainVars>>

CallCallLlm ==
    /\ call.fn = "call_llm"
    /\ ret = NotCalled
    /\ \E r \in call_llm(call.http, call.content) : ret' = r
    /\ sent' = <<call.prompt>>
    /\ UNCHANGED <<call, issued, mainVars>>

CallPerceiveContext ==
    /\ call.fn = "perceive_context"
    /\ ret = NotCalled
    /\ LET run == PerceiveRun(call.pod_name, call.classification, call.exec)
       IN  /\ ret' = run.result
           /\ issued' = run.commands
    /\ UNCHANGED <<call, sent, mainVars>>

CallReasonLlm ==
    /\ call.fn = "reason_llm"
    /\ ret = NotCalled
    /\ sent' = <<BuildPrompt(call.context_package, call.prompt_template)>>
    /\ \E reply \in call_llm(call.http, call.content) : ret' = reason_llm(reply)
    /\ UNCHANGED <<call, issued, mainVars>>

NextUnit ==
    \/ CallRunCommand
    \/ CallCallLlm
    \/ CallPerceiveContext
    \/ CallReasonLlm

SpecUnit == InitUnit /\ [][NextUnit]_vars

(***************************************************************************)
(* get_worker_node, SCENARIOS, get_pod_name                                *)
(***************************************************************************)
\* line.split(): the words of a line
Words(line) ==
    LET idxs == {i \in 1..Len(line) : line[i] \notin Whitespace}
        RECURSIVE Pick(_)
        Pick(S) == IF S = {} THEN <<>>
                   ELSE <<line[Least(S)]>> \o Pick(S \ {Least(S)})
    IN  Pick(idxs)

\* Lines 129-135: the first word of the first line that has one word only or
\* whose second word is <none>; None when no line qualifies.
FirstWorker(nodes_output) ==
    LET lines == Split(Strip(nodes_output), NL)
        ok == {i \in 1..Len(lines) :
                  /\ Strip(lines[i]) # <<>>
                  /\ LET parts == Words(lines[i])
                     IN  Len(parts) = 1 \/ (Len(parts) > 1 /\ parts[2] = "<none>")}
    IN  IF ok = {} THEN None ELSE <<Words(lines[Least(ok)])[1]>>

GetNodesCmd == <<"kubectl get nodes --no-headers -o custom-columns=...">>

\* The command is run in strict mode (the default check=True).
get_worker_node(p) ==
    LET nodes_output == run_command(p, TRUE)
    IN  IF nodes_output.raised THEN nodes_output
        ELSE Returned(FirstWorker(nodes_output.value))

Scenario(id, pattern, kind, name, taint) ==
    [id |-> id, pod_name_pattern |-> pattern, cleanup_kind |-> kind,
     cleanup_name |-> name, pre_run_command |-> taint, post_run_command |-> taint]

\* Lines 139-212.  pre_run_command and post_run_command say whether the
\* scenario has the key.
SCENARIOS ==
    << Scenario("1_insufficient_cpu", <<"high-cpu-app-">>, "deployment", "high-cpu-app", FALSE),
       Scenario("2_taint_toleration", <<"app-needs-toleration">>, "pod", "app-needs-toleration", TRUE),
       Scenario("3_node_selector", <<"app-needs-label">>, "pod", "app-needs-label", FALSE),
       Scenario("4_invalid_image_name", <<"bad-image", "-pod">>, "pod", "bad-image-pod", FALSE),
       Scenario("6_missing_configmap", <<"app-needs-config">>, "pod", "app-needs-config", FALSE),
       Scenario("7_failing_init_container", <<"app-with-failing-init">>, "pod", "app-with-failing-init", FALSE),
       Scenario("8_app_logic_error", <<"buggy-app", "-pod">>, "pod", "buggy-app-pod", FALSE),
       Scenario("9_oomkilled", <<"oom", "-pod">>, "pod", "oom-pod", FALSE),
       Scenario("10_bad_liveness_probe", <<"bad-liveness", "-pod">>, "pod", "bad-liveness-pod", FALSE),
       Scenario("11_bad_readiness_probe", <<"bad-readiness", "-pod">>, "pod", "bad-readiness-pod", FALSE) >>

\* "taint" in scenario_id
TaintInId(scenario) == scenario.id \in {"2_taint_toleration"}

\* SkippedByGate without the test of line 237.
MutSkippedByGate(scenario, node) == FALSE

\* Line 237: the taint gate.
SkippedByGate(scenario, node) == TaintInId(scenario) /\ node = None

\* Lines 220-223: the first line of the listing whose text, "pod/" removed,
\* starts with the pattern; None when there is none.
ScanListing(pods_output, pattern) ==
    LET lines == Split(pods_output, NL)
        names == [i \in 1..Len(lines) |-> Replace(lines[i], <<"pod/">>, <<>>)]
        hits == {i \in 1..Len(lines) : StartsWith(names[i], pattern)}
    IN  IF hits = {} THEN None ELSE names[Least(hits)]

\* Line 218: range(5).
MaxPolls == 5

GetPodsCmd == <<"kubectl get pods -o name">>

\* The mode get_pod_name polls in (check=False).
PollCheck == FALSE

\* PollStep with the loop bound off by one.
MutPollStep(n, p, pattern) ==
    LET pods_output == run_command(p, PollCheck)
    IN  IF pods_output.raised THEN [to |-> "raise", value |-> None]
        ELSE LET hit == ScanListing(pods_output.value, pattern)
             IN  IF hit # None THEN [to |-> "return", value |-> hit]
                 ELSE IF n + 1 <= MaxPolls THEN [to |-> "again", value |-> None]
                 ELSE [to |-> "return", value |-> None]

\* One iteration of the loop of get_pod_name after n earlier ones, the
\* listing command coming to p: "return" with the name found, "again" to
\* poll once more, or "return" with None when the iterations are used up.
PollStep(n, p, pattern) ==
    LET pods_output == run_command(p, PollCheck)
    IN  IF pods_output.raised THEN [to |-> "raise", value |-> None]
        ELSE LET hit == ScanListing(pods_output.value, pattern)
             IN  IF hit # None THEN [to |-> "return", value |-> hit]
                 ELSE IF n + 1 < MaxPolls THEN [to |-> "again", value |-> None]
                 ELSE [to |-> "return", value |-> None]

\* AfterIdentifying without the test of line 258.
MutAfterIdentifying(name) == "Classifying"

\* AfterIdentifying with the cleanup inside the branch of a found pod.
MutAfterIdentifyingDone(name) == IF name = None THEN "Done" ELSE "Classifying"

\* Line 258: where main goes with what get_pod_name returned.
AfterIdentifying(name) == IF name = None THEN "Cleanup" ELSE "Classifying"

(***************************************************************************)
(* main                                                                    *)
(***************************************************************************)
PreRunCmd(node) == <<"kubectl taint nodes">> \o node \o <<"special-workload=true:NoSchedule">>
PostRunCmd(node) == <<"kubectl taint nodes">> \o node \o <<"special-workload=true:NoSchedule-">>
ApplyCmd(scenario) == <<"kubectl apply -f", scenario.id>>
GetPodCmd(name) == <<"kubectl get pod">> \o name
DeleteCmd(scenario) ==
    <<"kubectl delete", scenario.cleanup_kind, scenario.cleanup_name,
      "--grace-period=0 --force">>

\* What the cluster and the endpoint can answer.
NodesOutputs ==
    {<<>>, <<"cp1", SP, "true">>, <<"cp1", SP, "true", NL, "worker1", SP, "<none>", NL>>,
     <<"worker1">>}

AnyRc(out, err) == {Proc(0, out, <<>>), Proc(1, <<>>, err)}

NodesProcs ==
    {Proc(0, o, <<>>) : o \in NodesOutputs} \cup {Proc(1, <<>>, NotFoundErr)}

PollProcs(scenario) ==
    LET pat == scenario.pod_name_pattern
    IN  {Proc(1, <<>>, NotFoundErr),
         Proc(0, <<"pod/", "other-pod", NL>>, <<>>),
         Proc(0, <<"pod/", "other-pod", NL, "pod/">> \o pat \o <<"x7", NL, "pod/">> \o pat, <<>>)}

StatusProcs == AnyRc(<<"NAME", SP, "STATUS", NL, "p", SP, "Pending", NL>>, NotFoundErr)

ClassContents ==
    Classifications \cup
    {<<SP, "InitializationFailure", NL>>, <<"schedulingfailure">>, <<>>}

MainDescProcs ==
    {Proc(0, DescInit, <<>>), Proc(0, DescNoInit, <<>>), Proc(1, <<>>, NotFoundErr)}

MainExtraProcs == AnyRc(<<"line1", NL, "line2", NL>>, NotFoundErr)

DiagContents == {<<"Root", SP, "Cause", ":", SP, "bad", SP, "image">>}

\* The runner is followed over the first MaxScenarios scenarios.
MaxScenarios == 3

NumScenarios == IF MaxScenarios < Len(SCENARIOS) THEN MaxScenarios ELSE Len(SCENARIOS)

Current == SCENARIOS[idx]

Enter(state) ==
    /\ pc' = state
    /\ trace' = Append(trace, state)

Crash ==
    /\ pc' = "crashed"
    /\ UNCHANGED trace

Init ==
    /\ call = [fn |-> "main"]
    /\ ret = NotCalled
    /\ sent = <<>>
    /\ issued = {}
    /\ pc = "import"
    /\ idx = 0
    /\ node_for_taint = None
    /\ polls = <<>>
    /\ pod_name = Unset
    /\ classification = Unset
    /\ full_context = <<>>
    /\ diagnosis_result = Unset
    /\ displayed = <<>>
    /\ trace = <<>>
    /\ begun = {}
    /\ cleaned = {}
    /\ restored = {}
    /\ tainted = {}

scenarioVars ==
    <<polls, pod_name, classification, full_context, diagnosis_result, displayed>>

ledgerVars == <<begun, cleaned, restored, tainted>>

\* Line 137: node_name = get_worker_node() as the module is loaded.
LoadModule ==
    /\ pc = "import"
    /\ \E p \in NodesProcs :
          /\ issued' = {GetNodesCmd}
          /\ IF get_worker_node(p).raised THEN pc' = "crashed" ELSE pc' = "main"
    /\ UNCHANGED <<unitVars, sent, idx, node_for_taint, scenarioVars, trace, ledgerVars>>

\* Lines 228-232.
StartMain ==
    /\ pc = "main"
    /\ \E p \in NodesProcs :
          LET r == get_worker_node(p)
          IN  /\ IF r.raised
                 THEN /\ pc' = "crashed"
                      /\ issued' = {GetNodesCmd}
                      /\ UNCHANGED <<node_for_taint, idx>>
                 ELSE /\ pc' = "loop"
                      /\ issued' = {}
                      /\ node_for_taint' = r.value
                      /\ idx' = 1
    /\ UNCHANGED <<unitVars, sent, scenarioVars, trace, ledgerVars>>

\* Lines 234-239: the head of the loop, with the taint gate.
NextScenario ==
    /\ pc = "loop"
    /\ idx <= NumScenarios
    /\ IF SkippedByGate(Current, node_for_taint)
       THEN /\ idx' = idx + 1
            /\ UNCHANGED <<pc, trace>>
       ELSE /\ Enter("Setup")
            /\ UNCHANGED idx
    /\ UNCHANGED <<unitVars, logVars, node_for_taint, scenarioVars, ledgerVars>>

\* Line 331.
Complete ==
    /\ pc = "loop"
    /\ idx > NumScenarios
    /\ pc' = "complete"
    /\ UNCHANGED <<unitVars, logVars, idx, node_for_taint, scenarioVars, trace, ledgerVars>>

\* Lines 241-244: the pre-run command, in strict mode.
Setup ==
    /\ pc = "Setup"
    /\ begun' = begun \cup {idx}
    /\ IF Current.pre_run_command
       THEN \E p \in AnyRc(<<"node/", "tainted">>, NotFoundErr) :
               /\ issued' = issued \cup {PreRunCmd(node_for_taint)}
               /\ IF run_command(p, TRUE).raised
                  THEN Crash /\ UNCHANGED tainted
                  ELSE Enter("Applied") /\ tainted' = tainted \cup {node_for_taint}
       ELSE /\ Enter("Applied")
            /\ UNCHANGED <<issued, tainted>>
    /\ UNCHANGED <<unitVars, sent, idx, node_for_taint, scenarioVars, cleaned, restored>>

\* Lines 246-253: the manifest is read and applied, in strict mode.
Apply ==
    /\ pc = "Applied"
    /\ \E readable \in BOOLEAN :
          IF ~readable
          THEN Crash /\ UNCHANGED issued
          ELSE \E p \in AnyRc(<<"created">>, NotFoundErr) :
                  /\ issued' = issued \cup {ApplyCmd(Current)}
                  /\ IF run_command(p, TRUE).raised THEN Crash ELSE Enter("Waiting")
    /\ UNCHANGED <<unitVars, sent, idx, node_for_taint, scenarioVars, ledgerVars>>

\* Lines 254-255 and 217: the fixed waits.
Wait ==
    /\ pc = "Waiting"
    /\ Enter("Identifying")
    /\ UNCHANGED <<unitVars, logVars, idx, node_for_taint, scenarioVars, ledgerVars>>

\* Lines 218-225 and 257-261: one poll of get_pod_name; on its return main
\* goes on with the name.
Poll ==
    /\ pc = "Identifying"
    /\ \E p \in PollProcs(Current) :
          LET step == PollStep(Len(polls), p, Current.pod_name_pattern)
          IN  /\ issued' = issued \cup {GetPodsCmd}
              /\ polls' = Append(polls, run_command(p, PollCheck).value)
              /\ CASE step.to = "again" -> UNCHANGED <<pc, trace, pod_name>>
                   [] step.to = "return" ->
                        /\ pod_name' = step.value
                        /\ Enter(AfterIdentifying(step.value))
                   [] OTHER -> Crash /\ UNCHANGED pod_name
    /\ UNCHANGED <<unitVars, sent, idx, node_for_taint, classification, full_context,
                   diagnosis_result, displayed, ledgerVars>>

\* Lines 263-274: the status query, in strict mode, and the classification.
Classify ==
    /\ pc = "Classifying"
    /\ polls' = <<>>
    /\ \E p \in StatusProcs :
          LET get_pod_output == run_command(p, TRUE)
          IN  /\ issued' = issued \cup {GetPodCmd(pod_name)}
              /\ IF get_pod_output.raised
                 THEN Crash /\ UNCHANGED <<sent, classification>>
                 ELSE /\ sent' = Append(sent,
                                 BuildPrompt(<<Entry(Sentinel, get_pod_output.value)>>,
                                             classification_prompt))
                      /\ \E http \in HttpOutcomes, content \in ClassContents :
                           \E reply \in call_llm(http, content) :
                              IF reason_llm(reply).raised
                              THEN Crash /\ UNCHANGED classification
                              ELSE /\ classification' = Strip(reason_llm(reply).value)
                                   /\ Enter("ContextCollection")
    /\ UNCHANGED <<unitVars, idx, node_for_taint, pod_name, full_context,
                   diagnosis_result, displayed, ledgerVars>>

\* Lines 276-277.
CollectContext ==
    /\ pc = "ContextCollection"
    /\ \E exec \in [desc : MainDescProcs, extra : MainExtraProcs] :
          LET run == PerceiveRun(pod_name, classification, exec)
          IN  /\ issued' = issued \cup run.commands
              /\ IF run.result.raised
                 THEN Crash /\ UNCHANGED full_context
                 ELSE full_context' = run.result.value /\ Enter("Diagnosing")
    /\ UNCHANGED <<unitVars, sent, idx, node_for_taint, polls, pod_name, classification,
                   diagnosis_result, displayed, ledgerVars>>

\* Lines 279-315.
Diagnose ==
    /\ pc = "Diagnosing"
    /\ sent' = Append(sent, BuildPrompt(full_context, diagnosis_prompt_template))
    /\ \E http \in HttpOutcomes, content \in DiagContents :
          \E reply \in call_llm(http, content) :
             IF reason_llm(reply).raised
             THEN Crash /\ UNCHANGED diagnosis_result
             ELSE diagnosis_result' = reason_llm(reply).value /\ Enter("Displaying")
    /\ UNCHANGED <<unitVars, issued, idx, node_for_taint, polls, pod_name, classification,
                   full_context, displayed, ledgerVars>>

\* act_display_results with the first entry of the package left out of the
\* second panel.
MutActDisplayResults(scenario, context, llm_response) ==
    <<[panel |-> "Scenario Description", content |-> scenario.id],
      [panel |-> "Diagnostic Context Package Sent to LLM",
       content |-> SubSeq(context, 2, Len(context))],
      [panel |-> "LLM Analysis & Remediation Plan", content |-> llm_response]>>

\* Lines 115-124: the description, the package and the analysis, in order.
act_display_results(scenario, context, llm_response) ==
    <<[panel |-> "Scenario Description", content |-> scenario.id],
      [panel |-> "Diagnostic Context Package Sent to LLM", content |-> context],
      [panel |-> "LLM Analysis & Remediation Plan", content |-> llm_response]>>

\* Line 317.
Display ==
    /\ pc = "Displaying"
    /\ displayed' = act_display_results(Current, full_context, diagnosis_result)
    /\ Enter("Cleanup")
    /\ UNCHANGED <<unitVars, logVars, idx, node_for_taint, polls, pod_name, classification,
                   full_context, diagnosis_result, ledgerVars>>

\* The mode the cleanup commands run in (check=False).
CleanupCheck == FALSE

\* Lines 319-326: the delete and, for a scenario that has one, the post-run
\* command.
Cleanup ==
    /\ pc = "Cleanup"
    /\ polls' = <<>>
    /\ \E d \in AnyRc(<<"deleted">>, NotFoundErr) :
          IF run_command(d, CleanupCheck).raised
          THEN /\ Crash
               /\ issued' = issued \cup {DeleteCmd(Current)}
               /\ UNCHANGED <<cleaned, restored, tainted>>
          ELSE /\ cleaned' = cleaned \cup {idx}
               /\ IF Current.post_run_command
                  THEN \E p \in AnyRc(<<"node/", "untainted">>, NotFoundErr) :
                          /\ issued' = issued \cup {DeleteCmd(Current), PostRunCmd(node_for_taint)}
                          /\ IF run_command(p, CleanupCheck).raised
                             THEN Crash /\ UNCHANGED <<restored, tainted>>
                             ELSE /\ Enter("Done")
                                  /\ restored' = restored \cup {idx}
                                  /\ tainted' = IF p.rc = 0
                                                THEN tainted \ {node_for_taint}
                                                ELSE tainted
                  ELSE /\ issued' = issued \cup {DeleteCmd(Current)}
                       /\ Enter("Done")
                       /\ UNCHANGED <<restored, tainted>>
    /\ UNCHANGED <<unitVars, sent, idx, node_for_taint, pod_name, classification,
                   full_context, diagnosis_result, displayed, begun>>

\* Lines 328-329 and the loop's step to the next scenario, whose records
\* start empty.
Advance ==
    /\ pc = "Done"
    /\ pc' = "loop"
    /\ idx' = idx + 1
    /\ sent' = <<>>
    /\ issued' = {}
    /\ polls' = <<>>
    /\ pod_name' = Unset
    /\ classification' = Unset
    /\ full_context' = <<>>
    /\ diagnosis_result' = Unset
    /\ displayed' = <<>>
    /\ trace' = <<>>
    /\ UNCHANGED <<unitVars, node_for_taint, ledgerVars>>

Next ==
    \/ LoadModule
    \/ StartMain
    \/ NextScenario
    \/ Complete
    \/ Setup
    \/ Apply
    \/ Wait
    \/ Poll
    \/ Classify
    \/ CollectContext
    \/ Diagnose
    \/ Display
    \/ Cleanup
    \/ Advance

Spec == Init /\ [][Next]_vars

(***************************************************************************)
(* Properties                                                              *)
(***************************************************************************)
Returns(fn) == call.fn = fn /\ ret # NotCalled

Range(seq) == {seq[i] : i \in 1..Len(seq)}

\* C1: for every scenario whose Setup has begun, the cleanup delete and, when
\* the scenario has one, the post-run command have run by the time the run
\* ends, whatever failed before.
C1_CleanupAlwaysRuns ==
    pc \in {"crashed", "complete"} =>
        \A i \in begun :
            /\ i \in cleaned
            /\ SCENARIOS[i].post_run_command => i \in restored

\* The commands that query the pod or collect context.
DiagnosticVerbs ==
    {"kubectl get pod", "kubectl describe pod", "kubectl describe nodes",
     "kubectl get configmaps", "kubectl logs", "kubectl get endpoints -l app="}

NotFoundQuiet ==
    pod_name = None =>
        /\ pc \in {"Cleanup", "Done"}
        /\ sent = <<>>
        /\ \A c \in issued : c[1] \notin DiagnosticVerbs
        /\ classification = Unset
        /\ full_context = <<>>
        /\ displayed = <<>>

NotFoundStep ==
    pod_name = None =>
        /\ pc' # "crashed"
        /\ pc = "Cleanup" => pc' = "Done" /\ idx' = idx
        /\ pc = "Done" => pc' = "loop" /\ idx' = idx + 1

\* C2: once get_pod_name has returned None the scenario is in Cleanup or
\* Done with no status query, no model call, no context collection and no
\* display made; its steps do not crash, lead from Cleanup to Done and from
\* Done to the head of the loop at the next scenario.
C2_NotFoundGoesToCleanup == []NotFoundQuiet /\ [][NotFoundStep]_vars

C2_Witness == pod_name = None /\ pc = "Done" /\ idx = 1 /\ idx \in cleaned

\* A listing holds a name that starts with the pattern.
HasMatch(listing, pattern) ==
    \E line \in Range(Split(listing, NL)) :
        StartsWith(Replace(line, <<"pod/">>, <<>>), pattern)

IsMatchOf(name, listing, pattern) ==
    /\ StartsWith(name, pattern)
    /\ \E line \in Range(Split(listing, NL)) : Replace(line, <<"pod/">>, <<>>) = name

\* C3: get_pod_name polls at most MaxPolls times and never after a poll that
\* held a match; it returns a matching name of the last poll when that poll
\* holds one, and None only after MaxPolls polls without a match.
C3_PollingPolicy ==
    polls # <<>> =>
        LET pattern == Current.pod_name_pattern
        IN  /\ Len(polls) <= MaxPolls
            /\ \A i \in 1..(Len(polls) - 1) : ~HasMatch(polls[i], pattern)
            /\ pc = "Identifying" =>
                  Len(polls) < MaxPolls /\ ~HasMatch(polls[Len(polls)], pattern)
            /\ pc = "Classifying" =>
                  /\ HasMatch(polls[Len(polls)], pattern)
                  /\ IsMatchOf(pod_name, polls[Len(polls)], pattern)
            /\ pc = "Cleanup" =>
                  /\ pod_name = None
                  /\ Len(polls) = MaxPolls
                  /\ \A i \in 1..Len(polls) : ~HasMatch(polls[i], pattern)

C3_Witness ==
    /\ pc = "Classifying"
    /\ Len(polls) = MaxPolls
    /\ pod_name = Current.pod_name_pattern \o <<"x7">>

\* The table of section 4.1: the keys a classification adds.
TableRow(cls) ==
    CASE cls = <<"SchedulingFailure">> -> {"node_descriptions"}
      [] cls = <<"ImagePullFailure">> -> {}
      [] cls = <<"ConfigurationFailure">> -> {"configmaps_in_namespace"}
      [] cls = <<"InitializationFailure">> -> {"init_container_logs"}
      [] cls = <<"RuntimeCrash">> -> {"container_logs"}
      [] cls = <<"HealthCheckFailure">> -> {"service_endpoints"}

\* C4 as claimed: for every enumerated classification and every command
\* output the key set is pod_description plus the table row.
C4_KeySetOfTable ==
    (Returns("perceive_context") /\ call.classification \in Classifications) =>
        /\ ~ret.raised
        /\ KeysOf(ret.value) = {"pod_description"} \cup TableRow(call.classification)

\* C4 amended: as claimed, except that for InitializationFailure the key
\* init_container_logs is present exactly when an init-container name is
\* found in the pod description.
C4_KeySetOfTableAmended ==
    (Returns("perceive_context") /\ call.classification \in Classifications) =>
        /\ ~ret.raised
        /\ KeysOf(ret.value) =
              IF /\ call.classification = <<"InitializationFailure">>
                 /\ InitContainerName(ValueOf(ret.value, "pod_description")) = <<>>
              THEN {"pod_description"}
              ELSE {"pod_description"} \cup TableRow(call.classification)

C4_Witness ==
    /\ Returns("perceive_context")
    /\ call.classification = <<"InitializationFailure">>
    /\ KeySeq(ret.value) = <<"pod_description", "init_container_logs">>

\* C5: for a classification outside the enumerated six perceive_context
\* raises nothing and returns a package whose only key is pod_description.
C5_UnrecognizedBaseOnly ==
    (Returns("perceive_context") /\ call.classification \notin Classifications) =>
        /\ ~ret.raised
        /\ KeySeq(ret.value) = <<"pod_description">>

C5_Witness ==
    /\ Returns("perceive_context")
    /\ call.classification = ApiRequestError("Timeout")
    /\ KeySeq(ret.value) = <<"pod_description">>
    /\ ret.value[1].value = DescInit

Header(UP) == <<"---", SP, UP, SP, "---">>

Footer(UP) == <<"---", SP, "END", SP, UP, SP, "---">>

\* The blocks of the templates: header word and key.
BlocksOf(template) ==
    IF template = diagnosis_prompt_template THEN Range(DiagnosisBlocks)
    ELSE IF template \in {TemplateAB, TemplateSentinelBlock}
         THEN {<<"A", "a">>, <<"B", "b">>}
    ELSE {}

\* C6: in multi-block assembly a block whose key is absent from the context
\* leaves neither header nor footer in the prompt, and a block whose key is
\* present stays, with the key's value in the prompt.
C6_BlockRemoval ==
    (Returns("reason_llm") /\ ~HasKey(call.context_package, Sentinel)) =>
        \A b \in BlocksOf(call.prompt_template) :
            IF HasKey(call.context_package, b[2])
            THEN /\ Contains(sent[1], Header(b[1]))
                 /\ Contains(sent[1], Footer(b[1]))
                 /\ Contains(sent[1], ValueOf(call.context_package, b[2]))
            ELSE /\ ~Contains(sent[1], Header(b[1]))
                 /\ ~Contains(sent[1], Footer(b[1]))

\* No text of the form {name}, name in [a-z_]+, occurs in s.
NoPlaceholder(s) ==
    ~\E i \in 1..Len(s) :
        /\ s[i] = "{"
        /\ RunLen(s, i + 1, LowerWords) >= 1
        /\ i + 1 + RunLen(s, i + 1, LowerWords) <= Len(s)
        /\ s[i + 1 + RunLen(s, i + 1, LowerWords)] = "}"

\* C7: when no placeholder remains in the assembled prompt, assembling the
\* prompt again with the same context gives the same prompt.
C7_AssemblyIdempotent ==
    (Returns("reason_llm") /\ NoPlaceholder(sent[1])) =>
        BuildPrompt(call.context_package, sent[1]) = sent[1]

C7_Witness ==
    /\ Returns("reason_llm")
    /\ NoPlaceholder(sent[1])
    /\ call.prompt_template = diagnosis_prompt_template
    /\ KeySeq(call.context_package) = <<"pod_description", "container_logs">>
    /\ sent[1] # call.prompt_template

\* The positions of template at which a block starts.
BlockStarts(template) == {i \in 1..Len(template) : BlockMatchEnd(template, i) # 0}

\* C8: for a context that consists of the sentinel key alone the prompt is
\* the template with every {kubectl_get_pod_output} replaced by the value and
\* nothing else changed; the blocks of the template stay in place.
C8_SingleSubstitution ==
    (Returns("reason_llm") /\ KeySeq(call.context_package) = <<Sentinel>>) =>
        LET t == call.prompt_template
            v == call.context_package[1].value
        IN  /\ sent[1] = Replace(t, Placeholder(Sentinel), v)
            /\ \A i \in BlockStarts(t) :
                  Contains(sent[1], Slice(t, i, BlockMatchEnd(t, i) - 1))

C8_Witness ==
    /\ Returns("reason_llm")
    /\ call.context_package = <<Entry(Sentinel, <<"Pending">>)>>
    /\ call.prompt_template = TemplateSentinelBlock
    /\ sent[1] = <<"Pending", NL>> \o Block("B", "b") \o <<NL>> \o Block("A", "a")

\* C9: call_llm never raises, and returns an error string for every failed
\* exchange.
C9_CallLlmNeverRaises ==
    Returns("call_llm") =>
        /\ ~ret.raised
        /\ call.http \in HttpFailures => IsErrorString(ret.value)

\* C10: run_command raises on a non-zero exit in strict mode, returns the
\* standard error text on a non-zero exit in tolerant mode, and the trimmed
\* standard output on success.
C10_RunCommandModes ==
    Returns("run_command") =>
        IF call.proc.rc = 0
        THEN ~ret.raised /\ ret.value = Strip(call.proc.out)
        ELSE IF call.check THEN ret.raised
        ELSE ~ret.raised /\ ret.value = Strip(call.proc.err)

\* C11: perceive_context runs every command in tolerant mode: whatever the
\* classification and whichever of its commands fail, the pod description
\* lookup included, it raises nothing and returns a package that holds
\* pod_description, the trimmed output of the description command (empty
\* when that command printed nothing).
C11_ContextNeverAborts ==
    Returns("perceive_context") =>
        /\ ~ret.raised
        /\ HasKey(ret.value, "pod_description")
        /\ ValueOf(ret.value, "pod_description") = Strip(call.exec.desc.out)
        /\ \A i \in 2..Len(ret.value) : ret.value[i].value = Strip(call.exec.extra.out)

C11_Witness ==
    /\ Returns("perceive_context")
    /\ call.classification = <<"RuntimeCrash">>
    /\ call.exec.desc.rc = 1
    /\ call.exec.extra.rc = 1
    /\ ret.value = <<Entry("pod_description", <<>>), Entry("container_logs", <<>>)>>

\* The states of a scenario, in the order of section 3.
StateOrder ==
    <<"Setup", "Applied", "Waiting", "Identifying", "Classifying", "ContextCollection",
      "Diagnosing", "Displaying", "Cleanup", "Done">>

Rank(state) == CHOOSE i \in 1..Len(StateOrder) : StateOrder[i] = state

\* State b may be entered from state a.
Follows(a, b) ==
    \/ Rank(b) = Rank(a) + 1
    \/ a = "Identifying" /\ b = "Cleanup"

TraceInOrder ==
    /\ trace # <<>> => trace[1] = "Setup"
    /\ \A i \in 1..(Len(trace) - 1) : Follows(trace[i], trace[i + 1])
    /\ pc \in Range(StateOrder) => trace # <<>> /\ trace[Len(trace)] = pc

\* Scenario i has reached Done.
ReachedDone(i) ==
    /\ i \in cleaned
    /\ SCENARIOS[i].post_run_command => i \in restored
    /\ i < idx \/ pc = "Done"

\* Every scenario before the one at hand was skipped by the taint gate or
\* has reached Done, and no later one has begun.
Sequential ==
    /\ begun \subseteq 1..idx
    /\ \A i \in 1..(idx - 1) :
          IF i \in begun THEN ReachedDone(i)
          ELSE SkippedByGate(SCENARIOS[i], node_for_taint)

StepInOrder ==
    /\ (pc' # pc /\ pc' \in Range(StateOrder)) =>
          IF pc' = "Setup" THEN pc = "loop" /\ trace = <<>> /\ idx' = idx
          ELSE pc \in Range(StateOrder) /\ Follows(pc, pc') /\ idx' = idx
    /\ idx' # idx =>
          /\ idx' = idx + 1
          /\ \/ pc = "main"
             \/ pc = "Done"
             \/ pc = "loop" /\ SkippedByGate(Current, node_for_taint)

\* C12: within a scenario the states are entered in the order of
\* StateOrder, each from the one before it, the one skip being that from
\* Identifying to Cleanup; no state is entered twice; the runner moves to a
\* scenario only from Done of the scenario before it (or past a scenario the
\* taint gate skips), so every earlier scenario that began has reached Done.
C12_StatesInOrder == []TraceInOrder /\ []Sequential /\ [][StepInOrder]_vars

C12_Witness == idx = 2 /\ trace = StateOrder /\ 1 \in begun /\ 1 \in cleaned

\* The commands that belong to scenario i alone.
CommandsOf(i) ==
    {PreRunCmd(node_for_taint), PostRunCmd(node_for_taint), ApplyCmd(SCENARIOS[i]),
     DeleteCmd(SCENARIOS[i])}

\* main has found no worker node.
NoWorkerNode == pc \notin {"import", "main"} /\ node_for_taint = None

GateQuiet ==
    NoWorkerNode =>
        \A i \in 1..NumScenarios :
            TaintInId(SCENARIOS[i]) =>
                /\ i \notin begun \cup cleaned \cup restored
                /\ issued \cap CommandsOf(i) = {}
                /\ tainted = {}
                /\ idx = i => pc = "loop" /\ issued = {} /\ sent = <<>> /\ trace = <<>>

GateStep ==
    (NoWorkerNode /\ pc = "loop" /\ idx <= NumScenarios) =>
        IF TaintInId(Current)
        THEN /\ pc' = "loop"
             /\ idx' = idx + 1
             /\ UNCHANGED <<issued, sent, trace, ledgerVars>>
        ELSE pc' = "Setup" /\ idx' = idx

\* C13: when main has found no worker node, the taint scenario is passed
\* over at the head of the loop: it never begins, none of its pre-run, apply,
\* listing, status, model, delete or post-run steps is made, the step does
\* not crash and leads to the head of the loop at the next scenario; every
\* scenario that is not the taint scenario enters Setup from the head of the
\* loop.
C13_TaintGate == []GateQuiet /\ [][GateStep]_vars

C13_Witness ==
    /\ NoWorkerNode
    /\ idx = 3
    /\ pc = "Done"
    /\ begun = {1, 3}
    /\ cleaned = {1, 3}

\* The state the scenario at hand entered last.
LastState == IF trace = <<>> THEN "none" ELSE trace[Len(trace)]

\* C14: a failed model call is carried on as text: the run does not end in
\* Classifying once the classification prompt is sent, nor in Diagnosing;
\* an error string used as classification gives a package whose only key is
\* pod_description, and the analysis displayed is the text the diagnosis
\* call returned.
C14_ModelFailureAsText ==
    /\ (pc = "crashed" /\ LastState \in {"Classifying", "Diagnosing"}) => sent = <<>>
    /\ (IsErrorString(classification) /\ full_context # <<>>) =>
          KeySeq(full_context) = <<"pod_description">>
    /\ displayed # <<>> => displayed[3].content = diagnosis_result

\* The init-container name as section 4.1 describes it: the text, colon
\* removed, of the first indented line ending in a colon among the indented
\* lines that follow the line 'Init Containers:'; empty when there is no
\* such header or no such line.
SectionInitName(pod_description) ==
    LET lines == Split(pod_description, NL)
        headers == {i \in 1..Len(lines) : lines[i] = InitContainersHeader}
        Indented(i) == lines[i] # <<>> /\ lines[i][1] \in Whitespace
    IN  IF headers = {} THEN <<>>
        ELSE LET h == Least(headers)
                 outside == {j \in (h + 1)..Len(lines) : ~Indented(j)}
                 last == IF outside = {} THEN Len(lines) ELSE Least(outside) - 1
                 named == {i \in (h + 1)..last : EndsWith(Strip(lines[i]), <<":">>)}
             IN  IF named = {} THEN <<>>
                 ELSE Replace(Strip(lines[Least(named)]), <<":">>, <<>>)

\* C15: for InitializationFailure the package holds init_container_logs
\* exactly when the init-container section of the pod description has a
\* name line, the logs are requested for that name, and otherwise the
\* package holds pod_description alone and no logs are requested.
C15_InitContainerName ==
    (Returns("perceive_context") /\ call.classification = <<"InitializationFailure">>) =>
        LET name == SectionInitName(ValueOf(ret.value, "pod_description"))
        IN  IF name # <<>>
            THEN /\ KeySeq(ret.value) = <<"pod_description", "init_container_logs">>
                 /\ issued = {DescribePodCmd(call.pod_name), InitLogsCmd(call.pod_name, name)}
            ELSE /\ KeySeq(ret.value) = <<"pod_description">>
                 /\ issued = {DescribePodCmd(call.pod_name)}

PackageKept ==
    pc \in {"Diagnosing", "Displaying", "Cleanup"} => full_context' = full_context

PackageConsumed ==
    /\ Len(sent) <= 2
    /\ pc \in {"Classifying", "ContextCollection"} => full_context = <<>>
    /\ pc = "Diagnosing" => Len(sent) = 1 /\ full_context # <<>>
    /\ pc = "Displaying" => Len(sent) = 2
    /\ Len(sent) = 2 => sent[2] = BuildPrompt(full_context, diagnosis_prompt_template)
    /\ displayed # <<>> =>
          /\ Len(sent) = 2
          /\ displayed[2].content = full_context

\* C16: from the return of perceive_context to the end of the scenario the
\* package keeps its entries, their order and their values; one prompt is
\* assembled from it, the diagnosis prompt, and the package displayed is
\* the package that prompt was assembled from.
C16_PackageNotMutated == []PackageConsumed /\ [][PackageKept]_vars

C16_Witness ==
    /\ pc = "Done"
    /\ KeySeq(full_context) = <<"pod_description", "node_descriptions">>
    /\ displayed # <<>>
    /\ Len(sent) = 2

\* C17: for a context that holds the sentinel key together with other keys
\* the prompt is assembled in multi-block mode: every key's placeholder is
\* replaced and the blocks left with a placeholder are removed.
C17_SentinelWithOtherKeys ==
    (/\ Returns("reason_llm")
     /\ HasKey(call.context_package, Sentinel)
     /\ Len(call.context_package) > 1) =>
        sent[1] = StripBlocks(SubstituteAll(call.prompt_template, call.context_package))

\* C18: whenever the runner has left a scenario or has stopped, no node
\* carries a taint that a pre-run command of the run applied.
C18_TaintRemoved ==
    pc \in {"Done", "loop", "complete", "crashed"} => tainted = {}

\* C19: a scenario whose status query succeeded has, when it ends, sent two
\* prompts, the classification prompt and then the diagnosis prompt built
\* from the package; the package is collected after the first with the
\* stripped classification; a scenario whose pod was not found, or that the
\* taint gate passes over, sends no prompt.
C19_TwoModelCalls ==
    /\ (pc \in {"Done", "crashed"} /\ sent # <<>>) =>
          /\ Len(sent) = 2
          /\ classification # Unset
          /\ sent[2] = BuildPrompt(full_context, diagnosis_prompt_template)
    /\ full_context # <<>> =>
          /\ Len(sent) >= 1
          /\ classification = Strip(classification)
          /\ \E exec \in [desc : MainDescProcs, extra : MainExtraProcs] :
                full_context = perceive_context(pod_name, classification, exec).value
    /\ pod_name = None => sent = <<>>
    /\ (pc = "loop" /\ idx <= NumScenarios /\ SkippedByGate(Current, node_for_taint)) =>
          sent = <<>>

====
